---- MODULE Spec2Model ----
(***************************************************************************)
(* Model of the watchable JSON configuration handle of go-config           *)
(* (src/json/json.go, lines 1-485): the document map with its typed,       *)
(* decode-on-read accessors, its sections (Section, UnmarshalSection,      *)
(* SectionAsJSON) and its parser (New), and the Watch / StopWatching       *)
(* controller with its background listener goroutine.                      *)
(*                                                                         *)
(* Every access to shared memory of the handle (isBeingWatched, watcher,   *)
(* watchC, c, mut) is one step, so that the interleavings of concurrent    *)
(* callers and of the listener are those of the Go program.                *)
(***************************************************************************)
EXTENDS Integers, Sequences, FiniteSets, TLC

\* ------------------------------------------------------------------ bounds

\* Watch() calls that get past the compare-and-swap (each makes one channel
\* and asks for one fsnotify watcher).
MaxWatches == 2

\* Events and errors the subscriptions deliver in one run.
MaxEvents == 2

\* Read locks held at once (a caller that panicked holding one never gives
\* it back).
MaxReaders == 2

\* ------------------------------------------------------------ JSON values

Keys == {"id", "name"}

Callers == {"a", "b"}

\* The text of one member value of a JSON object, as the decoder sees it:
\* its kind, the characters of a string, the digits of an integer literal.
RawStr(s) == [t |-> "string", s |-> s, d |-> <<>>]
RawNum(d) == [t |-> "number", s |-> "", d |-> d]
RawFloat == [t |-> "float", s |-> "", d |-> <<1, 5>>]
RawNull == [t |-> "null", s |-> "", d |-> <<>>]
Missing == [t |-> "missing", s |-> "", d |-> <<>>]

\* A cell of map[string]*json.RawMessage: no entry, an entry holding the nil
\* pointer, or an entry pointing to the raw text of the value.
Absent == [t |-> "absent", s |-> "", d |-> <<>>]
NilPtr == [t |-> "nil", s |-> "", d |-> <<>>]

\* The zero Config's map (nil): every lookup misses.
NilMap == [k \in Keys |-> Absent]

\* A whole JSON text: an object with its members, or a text of another shape.
Object(id, name) == [t |-> "object", m |-> [k \in Keys |-> IF k = "id" THEN id ELSE name]]
Shape(t) == [t |-> t, m |-> [k \in Keys |-> Missing]]

\* json.Unmarshal(data, &m) for a fresh m of type map[string]*json.RawMessage:
\* an object fills the map, and a member that is the literal null leaves the
\* nil pointer in its cell; the text null leaves the map nil without an
\* error; any other text is an error.
UnmarshalMap(txt) ==
    CASE txt.t = "object" ->
           [err |-> FALSE,
            m |-> [k \in Keys |->
                     CASE txt.m[k].t = "missing" -> Absent
                       [] txt.m[k].t = "null" -> NilPtr
                       [] OTHER -> txt.m[k]]]
      [] txt.t = "null" -> [err |-> FALSE, m |-> NilMap]
      [] OTHER -> [err |-> TRUE, m |-> NilMap]

\* The value of a sequence of decimal digits.
RECURSIVE DigitsValue(_)
DigitsValue(d) ==
    IF d = <<>> THEN 0 ELSE 10 * DigitsValue(SubSeq(d, 1, Len(d) - 1)) + d[Len(d)]

\* json.Unmarshal(raw, &value) for value of type string and of type int.
UnmarshalString(raw) ==
    IF raw.t = "string" THEN [err |-> FALSE, s |-> raw.s, n |-> 0]
    ELSE [err |-> TRUE, s |-> "", n |-> 0]

UnmarshalInt(raw) ==
    IF raw.t = "number" THEN [err |-> FALSE, s |-> "", n |-> DigitsValue(raw.d)]
    ELSE [err |-> TRUE, s |-> "", n |-> 0]

UnmarshalValue(typ, raw) ==
    IF typ = "string" THEN UnmarshalString(raw) ELSE UnmarshalInt(raw)

\* ------------------------------------------------------------- time.Parse

\* The characters of the strings that the documents hold where a date is asked.
DateStrs ==
    {"12.09.2018", "1.2.2018", "29.2.2020", "2018-09-12", "31.02.2018", "12.09.18", "12.13.2018", "12.09.2018x"}

CharsOf(s) ==
    CASE s = "12.09.2018" -> <<"1", "2", ".", "0", "9", ".", "2", "0", "1", "8">>
      [] s = "1.2.2018" -> <<"1", ".", "2", ".", "2", "0", "1", "8">>
      [] s = "29.2.2020" -> <<"2", "9", ".", "2", ".", "2", "0", "2", "0">>
      [] s = "2018-09-12" -> <<"2", "0", "1", "8", "-", "0", "9", "-", "1", "2">>
      [] s = "31.02.2018" -> <<"3", "1", ".", "0", "2", ".", "2", "0", "1", "8">>
      [] s = "12.09.18" -> <<"1", "2", ".", "0", "9", ".", "1", "8">>
      [] s = "12.13.2018" -> <<"1", "2", ".", "1", "3", ".", "2", "0", "1", "8">>
      [] s = "12.09.2018x" -> <<"1", "2", ".", "0", "9", ".", "2", "0", "1", "8", "x">>
      [] OTHER -> <<>>

DigitChars == {"0", "1", "2", "3", "4", "5", "6", "7", "8", "9"}

DigitOf(ch) ==
    CASE ch = "0" -> 0 [] ch = "1" -> 1 [] ch = "2" -> 2 [] ch = "3" -> 3
      [] ch = "4" -> 4 [] ch = "5" -> 5 [] ch = "6" -> 6 [] ch = "7" -> 7
      [] ch = "8" -> 8 [] OTHER -> 9

IsDigit(cs, i) == i <= Len(cs) /\ cs[i] \in DigitChars

Rest(cs, n) == SubSeq(cs, n + 1, Len(cs))

\* getnum(value, false) of package time: one digit, or two where two stand.
GetNum(cs) ==
    IF ~IsDigit(cs, 1) THEN [err |-> TRUE, n |-> 0, rest |-> cs]
    ELSE IF ~IsDigit(cs, 2) THEN [err |-> FALSE, n |-> DigitOf(cs[1]), rest |-> Rest(cs, 1)]
    ELSE [err |-> FALSE, n |-> 10 * DigitOf(cs[1]) + DigitOf(cs[2]), rest |-> Rest(cs, 2)]

\* The element 2006 of a layout: exactly four characters, all digits.
GetYear(cs) ==
    IF Len(cs) < 4 \/ \E i \in 1..4 : ~IsDigit(cs, i)
    THEN [err |-> TRUE, n |-> 0, rest |-> cs]
    ELSE [err |-> FALSE,
          n |-> 1000 * DigitOf(cs[1]) + 100 * DigitOf(cs[2]) + 10 * DigitOf(cs[3]) + DigitOf(cs[4]),
          rest |-> Rest(cs, 4)]

\* The literal "." of the layout.
SkipDot(cs) ==
    IF cs # <<>> /\ cs[1] = "." THEN [err |-> FALSE, rest |-> Rest(cs, 1)]
    ELSE [err |-> TRUE, rest |-> cs]

IsLeap(y) == y % 4 = 0 /\ (y % 100 # 0 \/ y % 400 = 0)

DaysIn(m, y) ==
    CASE m = 2 -> IF IsLeap(y) THEN 29 ELSE 28
      [] m \in {4, 6, 9, 11} -> 30
      [] OTHER -> 31

\* A time.Time at midnight UTC, as the number year * 10000 + month * 100 + day.
Date(y, m, d) == y * 10000 + m * 100 + d

\* time.Parse("2.1.2006", value): day, ".", month, ".", year, nothing after,
\* and the day must exist in that month.
TimeParse(cs) ==
    LET day == GetNum(cs)
        dot1 == SkipDot(day.rest)
        month == GetNum(dot1.rest)
        dot2 == SkipDot(month.rest)
        year == GetYear(dot2.rest)
        bad == [err |-> TRUE, s |-> "", n |-> 0]
    IN  IF day.err THEN bad
        ELSE IF dot1.err THEN bad
        ELSE IF month.err THEN bad
        ELSE IF dot2.err THEN bad
        ELSE IF year.err THEN bad
        ELSE IF year.rest # <<>> THEN bad
        ELSE IF month.n < 1 \/ month.n > 12 THEN bad
        ELSE IF day.n < 1 \/ day.n > DaysIn(month.n, year.n) THEN bad
        ELSE [err |-> FALSE, s |-> "", n |-> Date(year.n, month.n, day.n)]

\* getTime: getString, then time.Parse of the string.
GetTimeValue(raw) ==
    LET str == UnmarshalString(raw)
    IN  IF str.err THEN str ELSE TimeParse(CharsOf(str.s))

\* What getString / getInt / getTime make of the raw value.
Decoded(typ, raw) ==
    IF typ = "time" THEN GetTimeValue(raw) ELSE UnmarshalValue(typ, raw)

\* -------------------------------------------------------------- the state

VARIABLES
    c,               \* Config.c: the document
    ver,             \* how many documents the handle has held (history)
    readers,         \* Config.mut: read locks held
    isBeingWatched,  \* Config.isBeingWatched
    watcher,         \* Config.watcher: 0 is nil, else the watcher's number
    watchC,          \* Config.watchC: 0 is nil, else the channel's number
    made,            \* channels made so far by Watch
    ws,              \* the fsnotify watchers: state and registered paths
    chClosed,        \* the notification channels: closed or not
    lis,             \* the listener goroutines, one per watcher
    call,            \* each caller's call in progress
    last,            \* the call that returned last, and what it returned
    notif,           \* the reload each caller's last notification was sent for
    events,          \* events and errors delivered so far
    crashed,         \* a goroutine panicked and the process is gone
    raced,           \* a Watch or StopWatching began during another (history)
    sect             \* what Section, SectionAsJSON and New returned last

vars == <<c, ver, readers, isBeingWatched, watcher, watchC, made, ws,
          chClosed, lis, call, last, notif, events, crashed, raced, sect>>

watchVars == <<isBeingWatched, watcher, watchC, made, ws, chClosed, lis>>

Ids == 1..MaxWatches

FilePath == "config.json"

\* The texts the backing file takes while it is watched; noent is the file
\* that cannot be read.
TextA == Object(RawNum(<<1>>), RawStr("qwerty"))
TextB == Object(RawNum(<<2>>), Missing)
WatchTexts == {TextA, TextB, Shape("invalid"), Shape("noent")}

\* The texts the accessors are tried on.
AccTexts ==
    {TextA, TextB,
     Object(RawNull, RawNum(<<4, 2>>)),
     Object(RawStr("7"), RawNull),
     Object(RawFloat, RawStr("")),
     Shape("null"), Shape("array"), Shape("invalid")}

DefaultStrs == {"dflt"}
DefaultInts == {42}

IdleCall ==
    [pc |-> "idle", kind |-> "none", typ |-> "none", key |-> "none",
     ds |-> "", dn |-> 0, id |-> 0, seen |-> 0]

NoLast ==
    [t |-> "none", op |-> "none", out |-> "none", typ |-> "none", key |-> "none",
     ds |-> "", dn |-> 0, s |-> "", n |-> 0, ch |-> 0, seenC |-> 0, seenD |-> 0]

NoData == [err |-> TRUE, txt |-> Shape("noent")]

NoListener == [pc |-> "none", data |-> NoData, newData |-> NilMap, cyc |-> 0]

NoWatcher == [st |-> "none", paths |-> {}]

\* Nothing returned yet by Section / UnmarshalSection, by SectionAsJSON, by New.
\* section := Config{}: the handle Section returns has the zero value in
\* every field but c (m here): it is not watched and has no watcher.
NoSection == [key |-> "none", out |-> "none", m |-> NilMap, isBeingWatched |-> 0, watcher |-> 0]

NoText == [key |-> "none", out |-> "none", txt |-> Shape("none")]

NoParsed == [key |-> "none", txt |-> Shape("none"), out |-> "none", m |-> NilMap]

NoSect == [section |-> NoSection, text |-> NoText, parsed |-> NoParsed]

\* ioutil.ReadFile(filePath) of a file holding txt.
ReadFile(txt) == [err |-> txt.t = "noent", txt |-> txt]

\* Load(filePath) / newConf(jsonData) give a handle for a text that parses.
Loaded(txt) == ~ReadFile(txt).err /\ ~UnmarshalMap(txt).err

InitWith(texts) ==
    /\ c \in {UnmarshalMap(txt).m : txt \in {x \in texts : Loaded(x)}}
    /\ ver = 1
    /\ readers = 0
    /\ isBeingWatched = 0
    /\ watcher = 0
    /\ watchC = 0
    /\ made = 0
    /\ ws = [w \in Ids |-> NoWatcher]
    /\ chClosed = [w \in Ids |-> FALSE]
    /\ lis = [w \in Ids |-> NoListener]
    /\ call = [t \in Callers |-> IdleCall]
    /\ last = NoLast
    /\ notif = [t \in Callers |-> 0]
    /\ events = 0
    /\ crashed = FALSE
    /\ raced = FALSE
    /\ sect = NoSect

Init == InitWith(WatchTexts)

InitAcc == InitWith(AccTexts)

Idle(t) == ~crashed /\ call[t].pc = "idle"

At(t, pc) == ~crashed /\ call[t].pc = pc

LifecyclePcs == {"w_new", "w_setw", "w_setc", "s_close", "s_closec", "s_nilc", "s_nilw"}

InLifecycle(t) == call[t].pc \in LifecyclePcs

OthersInLifecycle(t) == \E u \in Callers \ {t} : InLifecycle(u)

\* The call of t ends with this result.
Return(t, r) ==
    /\ last' = [r EXCEPT !.t = t]
    /\ call' = [call EXCEPT ![t] = IdleCall]

Goto(t, pc) == call' = [call EXCEPT ![t].pc = pc]

\* ------------------------------------------------------------ Config.Watch

\* atomic.CompareAndSwapInt32(&c.isBeingWatched, 0, 1) and (..., 1, 0): whether
\* the swap happens.
WatchCasAlways == TRUE

WatchCas == isBeingWatched = 0

StopCasAlways == TRUE

StopCas == isBeingWatched = 1

\* Watch(), to the compare-and-swap: an already watched handle is refused,
\* else the flag is set and the channel is made.
WatchCall(t) ==
    /\ Idle(t)
    /\ IF WatchCas
       THEN /\ made < MaxWatches
            /\ isBeingWatched' = 1
            /\ made' = made + 1
            /\ call' = [call EXCEPT ![t] = [IdleCall EXCEPT !.pc = "w_new", !.kind = "Watch", !.id = made + 1]]
            /\ raced' = (raced \/ OthersInLifecycle(t))
            /\ UNCHANGED <<last, watcher, watchC, ws, chClosed, lis>>
       ELSE /\ Return(t, [NoLast EXCEPT !.op = "Watch", !.out = "ErrAlreadyBeingWatched"])
            /\ UNCHANGED <<watchVars, raced>>
    /\ UNCHANGED <<c, ver, readers, notif, events, crashed, sect>>

\* fsnotify.NewWatcher() succeeds: the watcher is open and watches no path.
WatchNew(t) ==
    /\ At(t, "w_new")
    /\ ws' = [ws EXCEPT ![call[t].id] = [st |-> "open", paths |-> {}]]
    /\ Goto(t, "w_setw")
    /\ UNCHANGED <<c, ver, readers, isBeingWatched, watcher, watchC, made,
                   chClosed, lis, last, notif, events, crashed, sect, raced>>

\* fsnotify.NewWatcher() fails: Watch returns the error as it stands.
WatchNewFails(t) ==
    /\ At(t, "w_new")
    /\ Return(t, [NoLast EXCEPT !.op = "Watch", !.out = "ErrNewWatcher"])
    /\ UNCHANGED <<c, ver, readers, watchVars, notif, events, crashed, sect, raced>>

\* c.watcher = watcher
WatchSetWatcher(t) ==
    /\ At(t, "w_setw")
    /\ watcher' = call[t].id
    /\ Goto(t, "w_setc")
    /\ UNCHANGED <<c, ver, readers, isBeingWatched, watchC, made, ws,
                   chClosed, lis, last, notif, events, crashed, sect, raced>>

\* c.watchC = watchC; go func() {...}(); return watchC, nil
WatchSetChan(t) ==
    /\ At(t, "w_setc")
    /\ watchC' = call[t].id
    /\ lis' = [lis EXCEPT ![call[t].id] = [NoListener EXCEPT !.pc = "select"]]
    /\ Return(t, [NoLast EXCEPT !.op = "Watch", !.out = "ok", !.ch = call[t].id])
    /\ UNCHANGED <<c, ver, readers, isBeingWatched, watcher, made, ws,
                   chClosed, notif, events, crashed, sect, raced>>

\* ------------------------------------------------------ Config.StopWatching

\* StopWatching(), to the compare-and-swap: a handle that is not watched is
\* refused, else the flag is cleared and the call goes on to the teardown.
\* The call notes the watcher the handle holds and the number of channels
\* made as it begins (history).
StopCall(t) ==
    /\ Idle(t)
    /\ IF StopCas
       THEN /\ isBeingWatched' = 0
            /\ call' = [call EXCEPT ![t] = [IdleCall EXCEPT !.pc = "s_close", !.kind = "StopWatching",
                                                       !.id = watcher, !.seen = made]]
            /\ raced' = (raced \/ OthersInLifecycle(t))
            /\ UNCHANGED <<last, watcher, watchC, made, ws, chClosed, lis>>
       ELSE /\ Return(t, [NoLast EXCEPT !.op = "StopWatching", !.out = "ErrNotBeingWatched"])
            /\ UNCHANGED <<watchVars, raced>>
    /\ UNCHANGED <<c, ver, readers, notif, events, crashed, sect>>

\* A panic in the caller's goroutine ends the call; the caller may recover.
Fault(t, op) == Return(t, [NoLast EXCEPT !.op = op, !.out = "fault"])

\* err := c.watcher.Close(): the watcher is told to stop (a nil c.watcher is
\* a nil dereference); time.Sleep follows, which constrains nothing.
StopClose(t) ==
    /\ At(t, "s_close")
    /\ IF watcher = 0
       THEN /\ Fault(t, "StopWatching")
            /\ UNCHANGED ws
       ELSE /\ ws' = [ws EXCEPT ![watcher].st = IF @ = "open" THEN "done" ELSE @]
            /\ Goto(t, "s_closec")
            /\ UNCHANGED last
    /\ UNCHANGED <<c, ver, readers, isBeingWatched, watcher, watchC, made,
                   chClosed, lis, notif, events, crashed, sect, raced>>

StopCloseChanSkipped(t) ==
    /\ At(t, "s_closec")
    /\ Goto(t, "s_nilc")
    /\ UNCHANGED <<c, ver, readers, watchVars, last, notif, events, crashed, sect, raced>>

\* close(c.watchC): closing a nil or a closed channel panics.
StopCloseChan(t) ==
    /\ At(t, "s_closec")
    /\ IF watchC = 0 \/ chClosed[watchC]
       THEN /\ Fault(t, "StopWatching")
            /\ UNCHANGED chClosed
       ELSE /\ chClosed' = [chClosed EXCEPT ![watchC] = TRUE]
            /\ Goto(t, "s_nilc")
            /\ UNCHANGED last
    /\ UNCHANGED <<c, ver, readers, isBeingWatched, watcher, watchC, made,
                   ws, lis, notif, events, crashed, sect, raced>>

\* c.watchC = nil
StopNilChan(t) ==
    /\ At(t, "s_nilc")
    /\ watchC' = 0
    /\ Goto(t, "s_nilw")
    /\ UNCHANGED <<c, ver, readers, isBeingWatched, watcher, made, ws,
                   chClosed, lis, last, notif, events, crashed, sect, raced>>

\* c.watcher = nil; return err
StopNilWatcher(t) ==
    /\ At(t, "s_nilw")
    /\ watcher' = 0
    /\ Return(t, [NoLast EXCEPT !.op = "StopWatching", !.out = "ok", !.ch = call[t].id])
    /\ UNCHANGED <<c, ver, readers, isBeingWatched, watchC, made, ws,
                   chClosed, lis, notif, events, crashed, sect, raced>>

\* ------------------------------------------- getString, getInt and their users

\* What the caller of getString / getInt gets: Decode is the getter itself,
\* Get swallows the error and gives the default, MustGet panics with it.
Outcome(cl, err, val) ==
    [NoLast EXCEPT
       !.op = cl.kind, !.typ = cl.typ, !.key = cl.key, !.ds = cl.ds, !.dn = cl.dn,
       !.out = CASE err = "nil" -> "ok"
                 [] cl.kind = "Get" -> "ok"
                 [] cl.kind = "MustGet" -> "panic_" \o err
                 [] OTHER -> err,
       !.s = IF err = "nil" THEN val.s ELSE IF cl.kind = "Get" THEN cl.ds ELSE "",
       !.n = IF err = "nil" THEN val.n ELSE IF cl.kind = "Get" THEN cl.dn ELSE 0]

\* c.mut.RLock()
AccCall(t, kind, typ, key, ds, dn) ==
    /\ Idle(t)
    /\ readers < MaxReaders
    /\ readers' = readers + 1
    /\ call' = [call EXCEPT ![t] = [IdleCall EXCEPT !.pc = "a_check", !.kind = kind,
                                      !.typ = typ, !.key = key, !.ds = ds, !.dn = dn]]
    /\ UNCHANGED <<c, ver, watchVars, last, notif, events, crashed, sect, raced>>

AccCheckSkipped(t) ==
    /\ At(t, "a_check")
    /\ call' = [call EXCEPT ![t].pc = "a_decode", ![t].seen = ver]
    /\ UNCHANGED <<c, ver, readers, watchVars, last, notif, events, crashed, sect, raced>>

\* if _, ok := c.c[key]; !ok { c.mut.RUnlock(); return ..., not found }
AccCheck(t) ==
    /\ At(t, "a_check")
    /\ IF c[call[t].key].t = "absent"
       THEN /\ readers' = readers - 1
            /\ Return(t, [Outcome(call[t], "notfound", NoLast) EXCEPT !.seenC = ver])
       ELSE /\ call' = [call EXCEPT ![t].pc = "a_decode", ![t].seen = ver]
            /\ UNCHANGED <<readers, last>>
    /\ UNCHANGED <<c, ver, watchVars, notif, events, crashed, sect, raced>>

\* json.Unmarshal(*(c.c[key]), &value), then c.mut.RUnlock() on both ways out.
\* The dereference of a nil cell panics before either RUnlock. getTime parses
\* the string getString returned; the parse touches nothing of the handle.
AccDecode(t) ==
    /\ At(t, "a_decode")
    /\ LET cell == c[call[t].key]
           val == Decoded(call[t].typ, cell)
       IN  IF cell.t \in {"absent", "nil"}
           THEN /\ Return(t, [NoLast EXCEPT !.op = call[t].kind, !.typ = call[t].typ,
                                !.key = call[t].key, !.ds = call[t].ds, !.dn = call[t].dn,
                                !.out = "fault", !.seenC = call[t].seen, !.seenD = ver])
                /\ UNCHANGED readers
           ELSE /\ readers' = readers - 1
                /\ Return(t, [Outcome(call[t], IF val.err THEN "type" ELSE "nil", val)
                                EXCEPT !.seenC = call[t].seen, !.seenD = ver])
    /\ UNCHANGED <<c, ver, watchVars, notif, events, crashed, sect, raced>>

\* ------------------------------------------------- the listener goroutine

Receiving(w) == ~crashed /\ lis[w].pc = "select"

\* The subscription has something to deliver: Close() has not yet made the
\* watcher's own goroutine close the channels. Deliveries are not tied to the
\* registered paths: what the listener does with an event does not depend on
\* what made the subscription deliver it.
Delivers(w) == ws[w].st \in {"open", "done"} /\ events < MaxEvents

\* case event, ok := <-watcher.Events, with an event: a write goes on to the
\* re-read, any other operation goes straight to the second receive.
LisEvent(w, op) ==
    /\ Receiving(w)
    /\ Delivers(w)
    /\ events' = events + 1
    /\ lis' = [lis EXCEPT ![w].pc = IF op = "Write" THEN "read" ELSE "drain"]
    /\ UNCHANGED <<c, ver, readers, isBeingWatched, watcher, watchC, made,
                   ws, chClosed, call, last, notif, crashed, sect, raced>>

\* case event, ok := <-watcher.Events, closed: return
LisEventsClosed(w) ==
    /\ Receiving(w)
    /\ ws[w].st = "closed"
    /\ lis' = [lis EXCEPT ![w].pc = "exit"]
    /\ UNCHANGED <<c, ver, readers, isBeingWatched, watcher, watchC, made,
                   ws, chClosed, call, last, notif, events, crashed, sect, raced>>

LisErrorReturns(w) ==
    /\ Receiving(w)
    /\ Delivers(w)
    /\ events' = events + 1
    /\ lis' = [lis EXCEPT ![w].pc = "exit"]
    /\ UNCHANGED <<c, ver, readers, isBeingWatched, watcher, watchC, made,
                   ws, chClosed, call, last, notif, crashed, sect, raced>>

\* case err, ok := <-watcher.Errors, with an error: log it, next iteration
LisError(w) ==
    /\ Receiving(w)
    /\ Delivers(w)
    /\ events' = events + 1
    /\ UNCHANGED <<c, ver, readers, watchVars, call, last, notif, crashed, sect, raced>>

\* data, err := ioutil.ReadFile(c.filePath), the file holding txt by now.
LisRead(w, txt) ==
    /\ ~crashed
    /\ lis[w].pc = "read"
    /\ lis' = [lis EXCEPT ![w].pc = "parse", ![w].data = ReadFile(txt)]
    /\ UNCHANGED <<c, ver, readers, isBeingWatched, watcher, watchC, made,
                   ws, chClosed, call, last, notif, events, crashed, sect, raced>>

LisParseNoContinue(w) ==
    /\ ~crashed
    /\ lis[w].pc = "parse"
    /\ LET um == UnmarshalMap(lis[w].data.txt)
       IN  IF lis[w].data.err
           THEN lis' = [lis EXCEPT ![w].pc = "select", ![w].data = NoData]
           ELSE lis' = [lis EXCEPT ![w].pc = "lock", ![w].data = NoData, ![w].newData = um.m]
    /\ UNCHANGED <<c, ver, readers, isBeingWatched, watcher, watchC, made,
                   ws, chClosed, call, last, notif, events, crashed, sect, raced>>

\* if err != nil { log; continue }; json.Unmarshal(data, &newData);
\* if err != nil { log; continue }
LisParse(w) ==
    /\ ~crashed
    /\ lis[w].pc = "parse"
    /\ LET um == UnmarshalMap(lis[w].data.txt)
       IN  IF lis[w].data.err \/ um.err
           THEN lis' = [lis EXCEPT ![w].pc = "select", ![w].data = NoData]
           ELSE lis' = [lis EXCEPT ![w].pc = "lock", ![w].data = NoData, ![w].newData = um.m]
    /\ UNCHANGED <<c, ver, readers, isBeingWatched, watcher, watchC, made,
                   ws, chClosed, call, last, notif, events, crashed, sect, raced>>

CanLockAnyway == TRUE

\* c.mut.Lock() is granted when no read lock is held.
CanLock == readers = 0

InstalledNothing(w) == c

\* What the listener stores in c.c.
Installed(w) == lis[w].newData

\* c.mut.Lock(); c.c = newData; c.mut.Unlock()
LisSwap(w) ==
    /\ ~crashed
    /\ lis[w].pc = "lock"
    /\ CanLock
    /\ c' = Installed(w)
    /\ ver' = ver + 1
    /\ lis' = [lis EXCEPT ![w].pc = "drain", ![w].cyc = ver + 1]
    /\ UNCHANGED <<readers, isBeingWatched, watcher, watchC, made, ws,
                   chClosed, call, last, notif, events, crashed, sect, raced>>

\* <-watcher.Events after the event was handled: takes the next event and
\* drops it.
LisDrain(w) ==
    /\ ~crashed
    /\ lis[w].pc = "drain"
    /\ Delivers(w)
    /\ events' = events + 1
    /\ lis' = [lis EXCEPT ![w].pc = "send"]
    /\ UNCHANGED <<c, ver, readers, isBeingWatched, watcher, watchC, made,
                   ws, chClosed, call, last, notif, crashed, sect, raced>>

\* <-watcher.Events after the event was handled, on the closed channel.
LisDrainClosed(w) ==
    /\ ~crashed
    /\ lis[w].pc = "drain"
    /\ ws[w].st = "closed"
    /\ lis' = [lis EXCEPT ![w].pc = "send"]
    /\ UNCHANGED <<c, ver, readers, isBeingWatched, watcher, watchC, made,
                   ws, chClosed, call, last, notif, events, crashed, sect, raced>>

\* watchC <- struct{}{} meets a caller receiving from the channel.
Notify(w, t) ==
    /\ Idle(t)
    /\ lis[w].pc = "send"
    /\ ~chClosed[w]
    /\ notif' = [notif EXCEPT ![t] = lis[w].cyc]
    /\ lis' = [lis EXCEPT ![w].pc = "select", ![w].newData = NilMap, ![w].cyc = 0]
    /\ UNCHANGED <<c, ver, readers, isBeingWatched, watcher, watchC, made,
                   ws, chClosed, call, last, events, crashed, sect, raced>>

\* watchC <- struct{}{} on the closed channel: the goroutine panics, nothing
\* recovers it, and the process ends: nothing of its memory remains.
LisSendClosed(w) ==
    /\ ~crashed
    /\ lis[w].pc = "send"
    /\ chClosed[w]
    /\ crashed' = TRUE
    /\ lis' = [v \in Ids |-> IF v = w THEN [NoListener EXCEPT !.pc = "panic"] ELSE NoListener]
    /\ c' = NilMap
    /\ ver' = 0
    /\ readers' = 0
    /\ isBeingWatched' = 0
    /\ watcher' = 0
    /\ watchC' = 0
    /\ made' = 0
    /\ ws' = [v \in Ids |-> NoWatcher]
    /\ chClosed' = [v \in Ids |-> FALSE]
    /\ call' = [t \in Callers |-> IdleCall]
    /\ last' = NoLast
    /\ notif' = [t \in Callers |-> 0]
    /\ events' = 0
    /\ raced' = FALSE
    /\ sect' = NoSect

\* After Close() the watcher's own goroutine ends and closes Events and Errors.
WatcherExit(w) ==
    /\ ~crashed
    /\ ws[w].st = "done"
    /\ ws' = [ws EXCEPT ![w].st = "closed"]
    /\ UNCHANGED <<c, ver, readers, isBeingWatched, watcher, watchC, made,
                   chClosed, lis, call, last, notif, events, crashed, sect, raced>>

\* ------------------------------------------------------- specifications

Ops == {"Write", "Other"}

\* The caller that starts and stops the watch where one caller does.
Owners == {"a"}

\* One caller starts and stops the watch, every caller reads, and the
\* listener reloads.
Next ==
    \/ \E t \in Owners : WatchCall(t)
    \/ \E t \in Owners : WatchNew(t)
    \/ \E t \in Owners : WatchNewFails(t)
    \/ \E t \in Owners : WatchSetWatcher(t)
    \/ \E t \in Owners : WatchSetChan(t)
    \/ \E t \in Owners : StopCall(t)
    \/ \E t \in Owners : StopClose(t)
    \/ \E t \in Owners : StopCloseChan(t)
    \/ \E t \in Owners : StopNilChan(t)
    \/ \E t \in Owners : StopNilWatcher(t)
    \/ \E t \in Callers, key \in Keys, ds \in DefaultStrs : AccCall(t, "Get", "string", key, ds, 0)
    \/ \E t \in Callers : AccCheck(t)
    \/ \E t \in Callers : AccDecode(t)
    \/ \E w \in Ids, op \in Ops : LisEvent(w, op)
    \/ \E w \in Ids : LisEventsClosed(w)
    \/ \E w \in Ids : LisError(w)
    \/ \E w \in Ids, txt \in WatchTexts : LisRead(w, txt)
    \/ \E w \in Ids : LisParse(w)
    \/ \E w \in Ids : LisSwap(w)
    \/ \E w \in Ids : LisDrain(w)
    \/ \E w \in Ids : LisDrainClosed(w)
    \/ \E w \in Ids, t \in Owners : Notify(w, t)
    \/ \E w \in Ids : LisSendClosed(w)
    \/ \E w \in Ids : WatcherExit(w)

Spec == Init /\ [][Next]_vars

\* Every caller starts and stops the watch, at any time; the subscriptions
\* deliver events that are not writes, and errors.
NextRace ==
    \/ \E t \in Callers : WatchCall(t)
    \/ \E t \in Callers : WatchNew(t)
    \/ \E t \in Callers : WatchNewFails(t)
    \/ \E t \in Callers : WatchSetWatcher(t)
    \/ \E t \in Callers : WatchSetChan(t)
    \/ \E t \in Callers : StopCall(t)
    \/ \E t \in Callers : StopClose(t)
    \/ \E t \in Callers : StopCloseChan(t)
    \/ \E t \in Callers : StopNilChan(t)
    \/ \E t \in Callers : StopNilWatcher(t)
    \/ \E w \in Ids : LisEvent(w, "Other")
    \/ \E w \in Ids : LisEventsClosed(w)
    \/ \E w \in Ids : LisError(w)
    \/ \E w \in Ids : LisDrain(w)
    \/ \E w \in Ids : LisDrainClosed(w)
    \/ \E w \in Ids, t \in Callers : Notify(w, t)
    \/ \E w \in Ids : LisSendClosed(w)
    \/ \E w \in Ids : WatcherExit(w)

SpecRace == Init /\ [][NextRace]_vars

\* The accessors alone, on handles made from every kind of text.
NextAcc ==
    \/ \E t \in Callers, kind \in {"Decode", "Get", "MustGet"}, key \in Keys, ds \in DefaultStrs :
          AccCall(t, kind, "string", key, ds, 0)
    \/ \E t \in Callers, kind \in {"Decode", "Get", "MustGet"}, key \in Keys, dn \in DefaultInts :
          AccCall(t, kind, "int", key, "", dn)
    \/ \E t \in Callers : AccCheck(t)
    \/ \E t \in Callers : AccDecode(t)

SpecAcc == InitAcc /\ [][NextAcc]_vars

\* ------------------------------------------------------------ the claims

\* The subscriptions that are open.
OpenSubs == {w \in Ids : ws[w].st = "open"}

\* Caller t calls Watch() / StopWatching() in this step.
WatchBegins(t) ==
    /\ Idle(t)
    /\ \/ call'[t].kind = "Watch"
       \/ last' # last /\ last'.t = t /\ last'.op = "Watch"

StopBegins(t) ==
    /\ Idle(t)
    /\ \/ call'[t].kind = "StopWatching"
       \/ last' # last /\ last'.t = t /\ last'.op = "StopWatching"

\* The handle is Watching: a Watch() has returned its channel, no
\* StopWatching() has begun since, and no two such calls ever overlapped.
Watching ==
    /\ ~crashed /\ ~raced
    /\ isBeingWatched = 1 /\ watcher # 0 /\ watchC # 0
    /\ \A u \in Callers : ~InLifecycle(u)

\* C1: a Watch() on a handle whose flag is set returns ErrAlreadyBeingWatched
\* and changes nothing of the watch state (flag, stored watcher and channel,
\* watchers, channels, listeners); on a Watching handle exactly one
\* subscription, the stored one, is open afterwards.
C1_WatchWhileWatched ==
    [][\A t \in Callers :
         (isBeingWatched = 1 /\ WatchBegins(t)) =>
            /\ last'.t = t /\ last'.op = "Watch" /\ last'.out = "ErrAlreadyBeingWatched"
            /\ call'[t].pc = "idle"
            /\ UNCHANGED <<watchVars, c, ver, readers>>
            /\ (Watching => OpenSubs' = {watcher'})]_vars

C1_Witness ==
    /\ last.op = "Watch" /\ last.out = "ErrAlreadyBeingWatched"
    /\ Watching
    /\ OpenSubs = {watcher}
    /\ lis[watcher].pc = "select"

\* C2: a StopWatching() on a handle whose flag is clear returns
\* ErrNotBeingWatched and changes neither the document nor the watch state:
\* no watcher and no channel is closed or dereferenced.
C2_StopWhileIdle ==
    [][\A t \in Callers :
         (isBeingWatched = 0 /\ StopBegins(t)) =>
            /\ last'.t = t /\ last'.op = "StopWatching" /\ last'.out = "ErrNotBeingWatched"
            /\ call'[t].pc = "idle"
            /\ UNCHANGED <<watchVars, c, ver, readers>>]_vars

\* Refused both before any watch and after one was stopped.
C2_Witness ==
    /\ last.op = "StopWatching" /\ last.out = "ErrNotBeingWatched"
    /\ isBeingWatched = 0
    /\ \E w \in Ids : ws[w].st = "closed" /\ chClosed[w]

\* C3: every Get evaluates its presence check and its decode against one
\* document version, however the listener's reload and the other callers'
\* reads interleave with it: the version a call saw at its check is the
\* version at its decode, and a call that passed its check still finds the key.
C3_ReadsSeeOneVersion ==
    /\ \A t \in Callers :
          call[t].pc = "a_decode" =>
             /\ call[t].seen = ver
             /\ c[call[t].key].t # "absent"
    /\ (last.op = "Get" /\ last.seenD # 0) => last.seenC = last.seenD

\* Both callers are between check and decode while a listener holds a
\* different document and waits for the lock.
C3_Witness ==
    /\ \A t \in Callers : call[t].pc = "a_decode"
    /\ \E w \in Ids : lis[w].pc = "lock" /\ lis[w].newData # c

C5_NotificationAfterReplacement ==
    /\ \A w \in Ids :
          (lis[w].pc \in {"drain", "send"} /\ lis[w].cyc > 0) =>
             /\ lis[w].cyc <= ver
             /\ (lis[w].cyc = ver => c = lis[w].newData)
    /\ \A t \in Callers :
          (call[t].pc = "a_decode" /\ notif[t] > 0) => call[t].seen >= notif[t]

\* A caller got the notification of a reload and is reading a key.
C5_Witness ==
    \E t \in Callers : call[t].pc = "a_decode" /\ notif[t] > 1 /\ call[t].seen = notif[t]

\* C6: once Watch() has returned a channel, the backing path is registered
\* with the watcher it created.
C6_WatchRegistersPath ==
    (last.op = "Watch" /\ last.out = "ok") => FilePath \in ws[last.ch].paths

\* C7: when StopWatching() returns nil, the watcher the handle held is closed,
\* its channel is closed, the flag is clear and the stored watcher and channel
\* are nil; the next Watch() is accepted, and the channel a Watch() returns is
\* open and was never used before.
C7_StopReleasesEverything ==
    [][\A t \in Callers :
         /\ (call[t].pc = "s_nilw" /\ call'[t].pc = "idle" /\ ~crashed') =>
               /\ last'.op = "StopWatching" /\ last'.out = "ok"
               /\ call[t].id # 0
               /\ ws'[call[t].id].st \in {"done", "closed"}
               /\ chClosed'[call[t].id]
               /\ isBeingWatched' = 0 /\ watcher' = 0 /\ watchC' = 0
         /\ (WatchBegins(t) /\ last.op = "StopWatching" /\ last.out = "ok") =>
               call'[t].pc = "w_new"
         /\ (call[t].pc = "w_setc" /\ call'[t].pc = "idle" /\ ~crashed') =>
               /\ last'.op = "Watch" /\ last'.out = "ok"
               /\ ~chClosed'[last'.ch]
               /\ lis[last'.ch].pc = "none"
               /\ watchC' = last'.ch]_vars

\* A watch was stopped and the next Watch() returned a new, open channel.
C7_Witness ==
    /\ last.op = "Watch" /\ last.out = "ok" /\ last.ch = 2
    /\ chClosed[1] /\ ~chClosed[2]
    /\ ws[1].st \in {"done", "closed"} /\ ws[2].st = "open"

\* C8: Get<T>(key, default) always returns, the decoded value or the default,
\* whatever the document holds at the key.
C8_GetIsTotal ==
    last.op = "Get" =>
       /\ last.out = "ok"
       /\ \/ last.s = last.ds /\ last.n = last.dn
          \/ c[last.key].t = IF last.typ = "string" THEN "string" ELSE "number"

\* C9: MustGet<T>(key) panics with the getter's error exactly when the getter
\* reports one (key absent, value of another type) and returns the getter's
\* value otherwise, and it has given its read lock back either way.
C9_MustGetPanicsOnError ==
    [][\A t \in Callers :
         (call[t].kind = "MustGet" /\ call[t].pc # "idle" /\ call'[t].pc = "idle") =>
            LET cell == c[call[t].key]
                typed == cell.t = (IF call[t].typ = "string" THEN "string" ELSE "number")
            IN  /\ last'.out = CASE cell.t = "absent" -> "panic_notfound"
                                 [] ~typed -> "panic_type"
                                 [] OTHER -> "ok"
                /\ readers' = readers - 1]_vars

\* C10: the getter returns the value of a key that is present and of the
\* asked type (the string's characters, the integer the digits spell) and the
\* not-found error for a key the document does not hold; Get on such a key
\* returns the default.
C10_DecodeFindsOrReportsMissing ==
    LET cell == c[last.key]
    IN  /\ (last.op = "Decode" /\ cell.t = "absent") => last.out = "notfound"
        /\ (last.op = "Decode" /\ last.typ = "string" /\ cell.t = "string") =>
              last.out = "ok" /\ last.s = cell.s
        /\ (last.op = "Decode" /\ last.typ = "int" /\ cell.t = "number") =>
              /\ last.out = "ok"
              /\ cell.d = <<1>> => last.n = 1
              /\ cell.d = <<2>> => last.n = 2
              /\ cell.d = <<4, 2>> => last.n = 42
              /\ cell.d \in {<<1>>, <<2>>, <<4, 2>>}
        /\ (last.op = "Get" /\ cell.t = "absent") =>
              last.out = "ok" /\ last.s = last.ds /\ last.n = last.dn

\* The getter for int has returned 1 for the key id of {"id": 1, "name": "qwerty"}.
C10_Witness ==
    /\ c = UnmarshalMap(TextA).m
    /\ last.op = "Decode" /\ last.typ = "int" /\ last.key = "id"
    /\ last.out = "ok" /\ last.n = 1

\* ------------------------------------- Section, SectionAsJSON, New (newConf)

\* The raw text of a member value that is itself an object, with its members.
RawObj(id, name) ==
    [t |-> "object", s |-> "", d |-> <<>>,
     m |-> [k \in Keys |-> IF k = "id" THEN id ELSE name]]

\* The bytes of a raw value read as a whole JSON text.
TextOf(raw) ==
    IF raw.t = "object" THEN [t |-> "object", m |-> raw.m] ELSE Shape(raw.t)

StringOfNothing(raw) == Shape("invalid")

\* string(*sectionBytes)
StringOf(raw) == TextOf(raw)

Address == RawObj(RawStr("Moscow"), RawStr("Lenina str."))

\* The documents Section and SectionAsJSON are tried on.
SecTexts ==
    {Object(RawNum(<<1>>), Address),
     Object(RawObj(RawNull, Missing), RawStr("qwerty")),
     Object(RawNull, RawObj(RawNum(<<2>>), Address)),
     Object(RawFloat, Missing)}

\* The texts New is tried on.
ParseTexts ==
    {TextA, Object(Address, RawNull),
     Shape("array"), Shape("invalid"), Shape("null"), Shape("string"), Shape("number")}

InitSec == InitWith(SecTexts)

SectionKinds == {"Section", "UnmarshalSection"}

\* Section(key) / UnmarshalSection(key, dest), dest a map of raw values:
\* if _, ok := c.c[key]; !ok { return ..., not present }. No lock is taken.
SectionCheck(t, kind, key) ==
    /\ Idle(t)
    /\ IF c[key].t = "absent"
       THEN /\ Return(t, [NoLast EXCEPT !.op = kind, !.key = key, !.out = "notfound",
                            !.seenC = ver])
            /\ sect' = [sect EXCEPT !.section = [NoSection EXCEPT !.key = key, !.out = "notfound"]]
       ELSE /\ call' = [call EXCEPT ![t] = [IdleCall EXCEPT !.pc = "sec_read", !.kind = kind,
                                              !.key = key, !.seen = ver]]
            /\ UNCHANGED <<last, sect>>
    /\ UNCHANGED <<c, ver, readers, watchVars, notif, events, crashed, raced>>

\* json.Unmarshal(*(c.c[key]), &(section.c)): the cell is looked up again, and
\* a cell that is nil, or gone by now, is a nil dereference.
SectionRead(t) ==
    /\ At(t, "sec_read")
    /\ LET cell == c[call[t].key]
           um == UnmarshalMap(TextOf(cell))
           out == CASE cell.t \in {"absent", "nil"} -> "fault"
                    [] um.err -> "type"
                    [] OTHER -> "ok"
       IN  /\ Return(t, [NoLast EXCEPT !.op = call[t].kind, !.key = call[t].key, !.out = out,
                           !.seenC = call[t].seen, !.seenD = ver])
           /\ sect' = [sect EXCEPT !.section =
                         [NoSection EXCEPT !.key = call[t].key, !.out = out,
                            !.m = IF out = "ok" THEN um.m ELSE NilMap]]
    /\ UNCHANGED <<c, ver, readers, watchVars, notif, events, crashed, raced>>

\* SectionAsJSON(key): c.mut.RLock()
SectionAsJSONCall(t, key) ==
    /\ Idle(t)
    /\ readers < MaxReaders
    /\ readers' = readers + 1
    /\ call' = [call EXCEPT ![t] = [IdleCall EXCEPT !.pc = "saj_read", !.kind = "SectionAsJSON",
                                      !.key = key]]
    /\ UNCHANGED <<c, ver, watchVars, last, notif, events, crashed, raced, sect>>

\* sectionBytes, ok := c.c[key]; c.mut.RUnlock() on both ways out;
\* return string(*sectionBytes), nil: a nil sectionBytes is a nil dereference.
SectionAsJSONRead(t) ==
    /\ At(t, "saj_read")
    /\ readers' = readers - 1
    /\ LET cell == c[call[t].key]
           out == CASE cell.t = "absent" -> "notfound"
                    [] cell.t = "nil" -> "fault"
                    [] OTHER -> "ok"
       IN  /\ Return(t, [NoLast EXCEPT !.op = "SectionAsJSON", !.key = call[t].key, !.out = out])
           /\ sect' = [sect EXCEPT !.text =
                         [key |-> call[t].key, out |-> out,
                          txt |-> IF out = "ok" THEN StringOf(cell) ELSE Shape("none")]]
    /\ UNCHANGED <<c, ver, watchVars, notif, events, crashed, raced>>

\* New(jsonStr) -> newConf([]byte(jsonStr)): json.Unmarshal(jsonData, &(config.c)).
\* key names the section the text was taken from, where it was (history).
New(t, txt, key) ==
    /\ Idle(t)
    /\ LET um == UnmarshalMap(txt)
           out == IF um.err THEN "type" ELSE "ok"
       IN  /\ Return(t, [NoLast EXCEPT !.op = "New", !.key = key, !.out = out])
           /\ sect' = [sect EXCEPT !.parsed =
                         [key |-> key, txt |-> txt, out |-> out,
                          m |-> IF out = "ok" THEN um.m ELSE NilMap]]
    /\ UNCHANGED <<c, ver, readers, watchVars, notif, events, crashed, raced>>

\* One caller asks for sections and their texts and parses texts, those that
\* SectionAsJSON returned among them.
NextSec ==
    \/ \E t \in Owners, kind \in SectionKinds, key \in Keys : SectionCheck(t, kind, key)
    \/ \E t \in Owners : SectionRead(t)
    \/ \E t \in Owners, key \in Keys : SectionAsJSONCall(t, key)
    \/ \E t \in Owners : SectionAsJSONRead(t)
    \/ \E t \in Owners, txt \in ParseTexts : New(t, txt, "none")
    \/ \E t \in Owners : sect.text.out = "ok" /\ New(t, sect.text.txt, sect.text.key)

SpecSec == InitSec /\ [][NextSec]_vars

\* C11: Section(key) gives the not-found error for a key the document does
\* not hold, a decode error for a value that is not an object, and for an
\* object a handle that holds exactly the members of that object, each with
\* its raw value.
C11_SectionOfKey ==
    LET cell == c[sect.section.key]
    IN  (last.op = "Section" /\ sect.section.key = last.key) =>
           /\ sect.section.out = last.out
           /\ last.out = CASE cell.t = "absent" -> "notfound"
                           [] cell.t # "object" -> "type"
                           [] OTHER -> "ok"
           /\ last.out = "ok" =>
                 \A k \in Keys :
                    /\ (cell.m[k].t = "missing") <=> (sect.section.m[k] = Absent)
                    /\ cell.m[k].t \notin {"missing", "null"} => sect.section.m[k] = cell.m[k]

\* C12: New accepts a text exactly when its top-level value is an object: an
\* object gives a handle, an array, any other value that is not an object, and
\* a text that is not JSON give an error.
C12_ParseAcceptsObjectsOnly ==
    last.op = "New" =>
       /\ last.out = sect.parsed.out
       /\ (last.out = "ok") <=> (sect.parsed.txt.t = "object")

\* C13: for every document and key, New on the text SectionAsJSON(key)
\* returns succeeds or fails as Section(key) does, and gives the same keys
\* with the same raw values when both succeed; where SectionAsJSON itself
\* fails, Section fails the same way.
C13_SectionTextRoundTrip ==
    /\ (sect.text.key # "none" /\ sect.section.key = sect.text.key /\ sect.text.out # "ok") =>
          sect.section.out = sect.text.out
    /\ (sect.parsed.key # "none" /\ sect.section.key = sect.parsed.key) =>
          /\ sect.parsed.out = sect.section.out
          /\ sect.parsed.out = "ok" => sect.parsed.m = sect.section.m

\* The nested object of {"id": 1, "name": {"id": "Moscow", "name": "Lenina str."}}
\* was taken both ways.
C13_Witness ==
    /\ sect.parsed.key = "name" /\ sect.parsed.out = "ok"
    /\ sect.section.key = "name" /\ sect.section.out = "ok"
    /\ sect.section.m["id"] = RawStr("Moscow")
    /\ sect.parsed.m = sect.section.m

\* ------------------------------------------------------- getTime, GetTime

\* The documents the time getter is tried on.
TimeTexts ==
    {Object(RawStr("12.09.2018"), RawStr("2018-09-12")),
     Object(RawStr("1.2.2018"), RawStr("31.02.2018")),
     Object(RawStr("29.2.2020"), RawStr("12.09.18")),
     Object(RawStr("12.13.2018"), RawStr("12.09.2018x")),
     Object(RawNum(<<1>>), RawStr("qwerty")),
     Object(RawNull, Missing)}

DefaultTimes == {Date(2000, 1, 1)}

InitTime == InitWith(TimeTexts)

\* getTime(key) and GetTime(key, defaultVal) alone.
NextTime ==
    \/ \E t \in Callers, kind \in {"Decode", "Get"}, key \in Keys, dn \in DefaultTimes :
          AccCall(t, kind, "time", key, "", dn)
    \/ \E t \in Callers : AccCheck(t)
    \/ \E t \in Callers : AccDecode(t)

SpecTime == InitTime /\ [][NextTime]_vars

\* C14: the time getter accepts a value only when it is a string of the form
\* D.M.YYYY and gives the day, month and year the string names ("12.09.2018"
\* is day 12, month 9, year 2018); for any other value that is present, a
\* value that is not a string or a string of another form, it gives a decode
\* error.
C14_TimeDecoding ==
    LET cell == c[last.key]
        day == last.n % 100
        month == (last.n \div 100) % 100
        year == last.n \div 10000
    IN  (last.op = "Decode" /\ last.typ = "time" /\ cell.t # "absent") =>
           CASE cell.t = "string" /\ cell.s = "12.09.2018" ->
                  last.out = "ok" /\ day = 12 /\ month = 9 /\ year = 2018
             [] cell.t = "string" /\ cell.s = "1.2.2018" ->
                  last.out = "ok" /\ day = 1 /\ month = 2 /\ year = 2018
             [] cell.t = "string" /\ cell.s = "29.2.2020" ->
                  last.out = "ok" /\ day = 29 /\ month = 2 /\ year = 2020
             [] OTHER -> last.out = "type"

\* C15: once a Watch() has returned its channel, and as long as every
\* StopWatching() still running began before that Watch() made the channel
\* (none began after the Watch() returned), the channel is open and the
\* handle stores the channel and the watcher of that Watch().
C15_NoIntermediateState ==
    (/\ ~crashed
     /\ last.op = "Watch" /\ last.out = "ok"
     /\ \A t \in Callers : call[t].kind = "StopWatching" => call[t].seen < last.ch) =>
       /\ ~chClosed[last.ch]
       /\ watchC = last.ch
       /\ watcher = last.ch

\* C16: no listener is blocked in its send on the notification channel when
\* StopWatching() closes that channel, and no listener ever sends on a closed
\* channel (which would end the process).
C16_NoSendOnClosedChannel ==
    [][/\ \A w \in Ids : (chClosed'[w] /\ ~chClosed[w]) => lis[w].pc # "send"
       /\ ~crashed']_vars

\* The listener goroutines that have been started and have not ended.
LiveListeners == {w \in Ids : lis[w].pc \notin {"none", "exit", "panic"}}

\* C17: at every moment the handle has at most one open subscription and at
\* most one live listener.
C17_OneSubscriptionOneListener ==
    /\ Cardinality(OpenSubs) <= 1
    /\ Cardinality(LiveListeners) <= 1

\* One caller starts the watch, the listener reloads, and every caller asks
\* for sections meanwhile.
NextSecWatch ==
    \/ \E t \in Owners : WatchCall(t)
    \/ \E t \in Owners : WatchNew(t)
    \/ \E t \in Owners : WatchSetWatcher(t)
    \/ \E t \in Owners : WatchSetChan(t)
    \/ \E t \in Callers, kind \in SectionKinds, key \in Keys : SectionCheck(t, kind, key)
    \/ \E t \in Callers : SectionRead(t)
    \/ \E w \in Ids, op \in Ops : LisEvent(w, op)
    \/ \E w \in Ids, txt \in WatchTexts : LisRead(w, txt)
    \/ \E w \in Ids : LisParse(w)
    \/ \E w \in Ids : LisSwap(w)
    \/ \E w \in Ids : LisDrain(w)
    \/ \E w \in Ids, t \in Owners : Notify(w, t)

SpecSecWatch == Init /\ [][NextSecWatch]_vars

\* C18: Section and UnmarshalSection hold the read lock from their presence
\* check to their read of the value, so both see one version of the document,
\* the key they found is still there at the read, and the call does not fault.
C18_SectionsSeeOneVersion ==
    /\ \A t \in Callers :
          call[t].pc = "sec_read" =>
             /\ readers > 0
             /\ call[t].seen = ver
             /\ c[call[t].key].t # "absent"
    /\ (last.op \in SectionKinds /\ last.seenD # 0) =>
          /\ last.seenC = last.seenD
          /\ last.out # "fault"

\* C19: the listener hands over a notification only in a cycle in which it
\* has replaced the document, so an event that is not a write, or any event
\* that replaced nothing, gives no notification and there are never more
\* notifications than reloads.
C19_NotificationOnlyAfterReload ==
    [][\A w \in Ids :
         (~crashed /\ lis[w].pc = "send" /\ lis'[w].pc = "select") => lis[w].cyc > 0]_vars

\* C20: every event the listener takes from the subscription is examined and,
\* if it is a write, gets its own re-read: a listener takes an event only at
\* its select, never to drop it.
C20_EveryEventExamined ==
    [][\A w \in Ids :
         (~crashed /\ events' = events + 1 /\ lis'[w] # lis[w]) =>
            /\ lis[w].pc = "select"
            /\ lis'[w].pc \in {"read", "drain"}]_vars

\* C21: a failed re-read, a text that does not parse and an error of the
\* subscription all leave the listener at its select; a listener returns
\* only once the events of its watcher are closed, and a started listener
\* whose watcher has not been closed has neither returned nor panicked (the
\* end of the whole process apart, which leaves no watcher).
C21_ListenerSurvivesFailures ==
    [][\A w \in Ids :
         /\ (/\ ~crashed /\ ~crashed'
             /\ lis[w].pc = "parse" /\ lis'[w] # lis[w]
             /\ (lis[w].data.err \/ lis[w].data.txt.t # "object")) =>
               lis'[w].pc = "select"
         /\ (Receiving(w) /\ events' = events + 1 /\ lis'[w].pc \notin {"read", "drain"}) =>
               lis'[w].pc = "select"
         /\ (lis[w].pc # "exit" /\ lis'[w].pc = "exit") => ws[w].st = "closed"
         /\ (ws'[w].st = "open" /\ lis'[w].pc # "none") =>
               lis'[w].pc \notin {"exit", "panic"}]_vars

\* The listener of an open watcher is about to pass over a failed re-read,
\* after an earlier event that an error or a failure took.
C21_Witness ==
    \E w \in Ids :
       /\ lis[w].pc = "parse" /\ lis[w].data.err
       /\ ws[w].st = "open"
       /\ events = MaxEvents
       /\ ver = 1

\* ------------------------------------------------ the watch, fairly scheduled

\* One caller starts and stops the watch, every caller may be receiving on
\* the channel, and the listener reloads.
NextLive ==
    \/ \E t \in Owners : WatchCall(t)
    \/ \E t \in Owners : WatchNew(t)
    \/ \E t \in Owners : WatchNewFails(t)
    \/ \E t \in Owners : WatchSetWatcher(t)
    \/ \E t \in Owners : WatchSetChan(t)
    \/ \E t \in Owners : StopCall(t)
    \/ \E t \in Owners : StopClose(t)
    \/ \E t \in Owners : StopCloseChan(t)
    \/ \E t \in Owners : StopNilChan(t)
    \/ \E t \in Owners : StopNilWatcher(t)
    \/ \E w \in Ids, op \in Ops : LisEvent(w, op)
    \/ \E w \in Ids : LisEventsClosed(w)
    \/ \E w \in Ids : LisError(w)
    \/ \E w \in Ids, txt \in WatchTexts : LisRead(w, txt)
    \/ \E w \in Ids : LisParse(w)
    \/ \E w \in Ids : LisSwap(w)
    \/ \E w \in Ids : LisDrain(w)
    \/ \E w \in Ids : LisDrainClosed(w)
    \/ \E w \in Ids, t \in Callers : Notify(w, t)
    \/ \E w \in Ids : LisSendClosed(w)
    \/ \E w \in Ids : WatcherExit(w)

\* A goroutine that can take its next step takes it: the listener (the select
\* of Go picks among its ready cases at random, so the closed Events channel
\* is picked in the end), the watcher's own goroutine, a caller inside Watch
\* or StopWatching, and a caller receiving on the channel. Nothing makes the
\* subscription deliver an event or a caller begin a call.
Fairness ==
    /\ \A w \in Ids :
          /\ WF_vars(LisEventsClosed(w))
          /\ WF_vars(\E txt \in WatchTexts : LisRead(w, txt))
          /\ WF_vars(LisParse(w))
          /\ WF_vars(LisSwap(w))
          /\ WF_vars(LisDrainClosed(w))
          /\ WF_vars(LisSendClosed(w))
          /\ WF_vars(WatcherExit(w))
          /\ WF_vars(\E t \in Callers : Notify(w, t))
    /\ \A t \in Owners :
          /\ WF_vars(WatchNew(t) \/ WatchNewFails(t))
          /\ WF_vars(WatchSetWatcher(t))
          /\ WF_vars(WatchSetChan(t))
          /\ WF_vars(StopClose(t))
          /\ WF_vars(StopCloseChan(t))
          /\ WF_vars(StopNilChan(t))
          /\ WF_vars(StopNilWatcher(t))

SpecLive == Init /\ [][NextLive]_vars /\ Fairness

\* C22: once the events of a watcher are closed, its listener returns in the
\* end, wherever it stood, and hands over no notification before it does.
C22_ListenerExitsOnClosure ==
    /\ \A w \in Ids : (ws[w].st = "closed" /\ lis[w].pc # "none") ~> (lis[w].pc = "exit")
    /\ [][\A w \in Ids :
            ws[w].st = "closed" => ~(lis[w].pc = "send" /\ lis'[w].pc = "select")]_vars

\* C26: once the listener has replaced the document, the notification of that
\* reload reaches a caller that is receiving, whether or not the subscription
\* delivers anything more.
C26_NotificationIsDelivered ==
    \A w \in Ids, n \in 2..(MaxEvents + 1) :
       (lis[w].pc = "drain" /\ lis[w].cyc = n) ~> (\E t \in Callers : notif[t] = n)

\* C25: when Watch() has returned the error of fsnotify.NewWatcher() and no
\* other Watch() or StopWatching() is running, the flag is clear: the handle
\* is idle, so the next Watch() is tried and the next StopWatching() is
\* refused.
C25_FailedWatchLeavesIdle ==
    (/\ last.op = "Watch" /\ last.out = "ErrNewWatcher"
     /\ \A t \in Callers : ~InLifecycle(t)) =>
       isBeingWatched = 0

\* ------------------------------------------ the Config without a watch

\* The documents of the handles without a watch.
LegacyTexts == AccTexts \cup TimeTexts \cup SecTexts

InitLegacy == InitWith(LegacyTexts)

\* GetString / GetInt / GetTime of the Config without a watch: the getter
\* dereferences *(c.c[key]) with no test of the key and no lock, and the
\* caller gives the default for an error.
LegacyGet(t, typ, key, ds, dn) ==
    /\ Idle(t)
    /\ LET cell == c[key]
           val == Decoded(typ, cell)
           cl == [IdleCall EXCEPT !.kind = "Get", !.typ = typ, !.key = key, !.ds = ds, !.dn = dn]
       IN  IF cell.t \in {"absent", "nil"}
           THEN Return(t, [NoLast EXCEPT !.op = "LegacyGet", !.typ = typ, !.key = key,
                             !.ds = ds, !.dn = dn, !.out = "fault"])
           ELSE Return(t, [Outcome(cl, IF val.err THEN "type" ELSE "nil", val)
                             EXCEPT !.op = "LegacyGet"])
    /\ UNCHANGED <<c, ver, readers, watchVars, notif, events, crashed, sect, raced>>

\* Section of the Config without a watch. The later file tests the key
\* before the dereference, the earlier one (src/config/json) does not.
LegacySection(t, key, tested) ==
    /\ Idle(t)
    /\ LET cell == c[key]
           um == UnmarshalMap(TextOf(cell))
           out == CASE tested /\ cell.t = "absent" -> "notfound"
                    [] cell.t \in {"absent", "nil"} -> "fault"
                    [] um.err -> "type"
                    [] OTHER -> "ok"
       IN  /\ Return(t, [NoLast EXCEPT !.op = IF tested THEN "LegacySection" ELSE "LegacySectionFirst",
                           !.key = key, !.out = out])
           /\ sect' = [sect EXCEPT !.section =
                         [NoSection EXCEPT !.key = key, !.out = out,
                            !.m = IF out = "ok" THEN um.m ELSE NilMap]]
    /\ UNCHANGED <<c, ver, readers, watchVars, notif, events, crashed, raced>>

NextLegacy ==
    \/ \E t \in Callers, key \in Keys, ds \in DefaultStrs : LegacyGet(t, "string", key, ds, 0)
    \/ \E t \in Callers, key \in Keys, dn \in DefaultInts : LegacyGet(t, "int", key, "", dn)
    \/ \E t \in Callers, key \in Keys, dn \in DefaultTimes : LegacyGet(t, "time", key, "", dn)
    \/ \E t \in Callers, key \in Keys, tested \in BOOLEAN : LegacySection(t, key, tested)

SpecLegacy == InitLegacy /\ [][NextLegacy]_vars

\* C24: on the Config without a watch too, a Get for a key the document does
\* not hold returns the default, and Section for such a key returns an error;
\* neither aborts.
C24_LegacyAbsentKey ==
    LET cell == c[last.key]
    IN  /\ (last.op = "LegacyGet" /\ cell.t = "absent") =>
              last.out = "ok" /\ last.s = last.ds /\ last.n = last.dn
        /\ (last.op \in {"LegacySection", "LegacySectionFirst"} /\ cell.t = "absent") =>
              last.out = "notfound"

\* ------------------------------------------- the handle Section returned

\* The documents whose sections are used as handles, and the texts their
\* file holds later.
SubTexts ==
    {Object(RawNum(<<1>>), Address), Object(Address, Missing), Shape("invalid")}

InitSub == InitWith(SubTexts)

SubOps == {"SubGet", "SubWatch", "SubStop"}

\* The callers that use the section handle.
SubCallers == Callers \ Owners

\* GetString / GetInt through the handle Section returned: the section's own
\* lock is taken and released within the call and its own map is read.
SubGet(t, typ, key, ds, dn) ==
    /\ Idle(t)
    /\ sect.section.out = "ok"
    /\ LET cell == sect.section.m[key]
           val == Decoded(typ, cell)
           cl == [IdleCall EXCEPT !.kind = "Get", !.typ = typ, !.key = key, !.ds = ds, !.dn = dn]
           r == CASE cell.t = "absent" -> Outcome(cl, "notfound", NoLast)
                  [] cell.t = "nil" -> [Outcome(cl, "nil", NoLast) EXCEPT !.out = "fault"]
                  [] OTHER -> Outcome(cl, IF val.err THEN "type" ELSE "nil", val)
       IN  Return(t, [r EXCEPT !.op = "SubGet"])
    /\ UNCHANGED <<c, ver, readers, watchVars, notif, events, crashed, sect, raced>>

SubWatchShared(t, ok) ==
    /\ Idle(t)
    /\ sect.section.out = "ok"
    /\ IF isBeingWatched = 0
       THEN /\ isBeingWatched' = 1
            /\ sect' = [sect EXCEPT !.section.isBeingWatched = 1,
                                    !.section.watcher = IF ok THEN 1 ELSE 0]
            /\ Return(t, [NoLast EXCEPT !.op = "SubWatch",
                            !.out = IF ok THEN "ok" ELSE "ErrNewWatcher"])
       ELSE /\ Return(t, [NoLast EXCEPT !.op = "SubWatch", !.out = "ErrAlreadyBeingWatched"])
            /\ UNCHANGED <<sect, isBeingWatched>>
    /\ UNCHANGED <<c, ver, readers, watcher, watchC, made, ws, chClosed, lis,
                   notif, events, crashed, raced>>

\* Watch() through the section handle: the compare-and-swap, the watcher and
\* the channel are those of the section's own Config value, and ok is whether
\* fsnotify.NewWatcher() succeeded. The goroutine it starts reads the section's
\* filePath, which is empty, so it never installs a document.
SubWatch(t, ok) ==
    /\ Idle(t)
    /\ sect.section.out = "ok"
    /\ IF sect.section.isBeingWatched = 0
       THEN /\ sect' = [sect EXCEPT !.section.isBeingWatched = 1,
                                    !.section.watcher = IF ok THEN 1 ELSE 0]
            /\ Return(t, [NoLast EXCEPT !.op = "SubWatch",
                            !.out = IF ok THEN "ok" ELSE "ErrNewWatcher"])
       ELSE /\ Return(t, [NoLast EXCEPT !.op = "SubWatch", !.out = "ErrAlreadyBeingWatched"])
            /\ UNCHANGED sect
    /\ UNCHANGED <<c, ver, readers, watchVars, notif, events, crashed, raced>>

\* StopWatching() through the section handle: its own flag, watcher and
\* channel; a nil watcher is a nil dereference after the flag was cleared.
SubStop(t) ==
    /\ Idle(t)
    /\ sect.section.out = "ok"
    /\ IF sect.section.isBeingWatched = 1
       THEN /\ sect' = [sect EXCEPT !.section.isBeingWatched = 0, !.section.watcher = 0]
            /\ Return(t, [NoLast EXCEPT !.op = "SubStop",
                            !.out = IF sect.section.watcher = 0 THEN "fault" ELSE "ok"])
       ELSE /\ Return(t, [NoLast EXCEPT !.op = "SubStop", !.out = "ErrNotBeingWatched"])
            /\ UNCHANGED sect
    /\ UNCHANGED <<c, ver, readers, watchVars, notif, events, crashed, raced>>

\* One caller watches the parent and its listener reloads; another takes a
\* section and works through the handle it got.
NextSub ==
    \/ \E t \in Owners : WatchCall(t)
    \/ \E t \in Owners : WatchNew(t)
    \/ \E t \in Owners : WatchSetWatcher(t)
    \/ \E t \in Owners : WatchSetChan(t)
    \/ \E w \in Ids, op \in Ops : LisEvent(w, op)
    \/ \E w \in Ids, txt \in SubTexts : LisRead(w, txt)
    \/ \E w \in Ids : LisParse(w)
    \/ \E w \in Ids : LisSwap(w)
    \/ \E w \in Ids : LisDrain(w)
    \/ \E w \in Ids, t \in Owners : Notify(w, t)
    \/ \E t \in SubCallers, key \in Keys : SectionCheck(t, "Section", key)
    \/ \E t \in SubCallers : SectionRead(t)
    \/ \E t \in SubCallers, key \in Keys, ds \in DefaultStrs : SubGet(t, "string", key, ds, 0)
    \/ \E t \in SubCallers, ok \in BOOLEAN : SubWatch(t, ok)
    \/ \E t \in SubCallers : SubStop(t)

SpecSub == InitSub /\ [][NextSub]_vars

\* C23: the handle Section(key) returns starts not watching; a reload of the
\* parent leaves the section handle as it was; and nothing done through the
\* section handle changes the parent's document or its watch state.
C23_SectionIsIndependent ==
    [][/\ ((last' # last \/ sect' # sect) /\ last'.op = "Section" /\ last'.out = "ok") =>
             /\ sect'.section.isBeingWatched = 0
             /\ sect'.section.watcher = 0
       /\ (ver' # ver \/ c' # c) => sect'.section = sect.section
       /\ ((last' # last \/ sect' # sect) /\ last'.op \in SubOps) =>
             UNCHANGED <<c, ver, readers, watchVars, notif, events>>]_vars

\* The section handle is watched and read after the parent, itself watched,
\* reloaded a document in which the section's key is no object any more.
C23_Witness ==
    /\ sect.section.out = "ok"
    /\ sect.section.isBeingWatched = 1
    /\ sect.section.watcher = 1
    /\ isBeingWatched = 1
    /\ ver > 1
    /\ c[sect.section.key].t # "object"
    /\ last.op = "SubGet"
    /\ last.s = "Moscow"

====
